---- MODULE Spec2Model ----
(***************************************************************************)
(* Model of bench.py: the dataset generator setup(), check_result, the     *)
(* five backend adapters behind joblib's memory.cache, and main_bench.     *)
(*                                                                         *)
(* A float in [0,1) is the fixed-point integer v standing for v / Scale.   *)
(* A fourth power is kept exactly, as an integer standing for v^4/Scale^4. *)
(* A ragged dataset of 10000 numpy rows is kept as the parameters that     *)
(* determine every one of its elements (seed, range bounds, in-place       *)
(* square roots applied); NRows, RowSize and Elem read it element-wise.    *)
(***************************************************************************)
EXTENDS Integers, Sequences, FiniteSets, TLC

VARIABLES clock, cache, hist, heap, orig_data, fr, ret, top, mainpc, mainIdx,
          log, plots, budget, tickMax, gpu, snap, chk, probe

vars == <<clock, cache, hist, heap, orig_data, fr, ret, top, mainpc, mainIdx,
          log, plots, budget, tickMax, gpu, snap, chk, probe>>

----------------------------------------------------------------------------
(* Bounds of the model *)

MaxTick == 1
MaxTrials == 2
MaxCalls == 1
MaxMemoCalls == 2
ProbeSpan == 60

(* Program constants *)

SEED == 123
RangeStart == 1
RangeStop == 10001
SpotRow == 10
SpotCol == 1
MainTrials == 3
Scale == 216
RtolInv == 10000000

----------------------------------------------------------------------------
(* Numbers *)

Abs(x) == IF x < 0 THEN -x ELSE x

\* the k-th double (0-based) drawn from a generator seeded with seed
Rng(seed, k) == (((seed + k) % Scale) * 89 + 31) % Scale

\* math.sqrt on the fixed-point value v: sqrt(v/Scale) * Scale, rounded down
Sqrt(v) == CHOOSE r \in 0..Scale : r * r <= v * Scale /\ (r + 1) * (r + 1) > v * Scale

RECURSIVE RootN(_, _)
RootN(k, v) == IF k = 0 THEN v ELSE Sqrt(RootN(k - 1, v))

\* x ** 4 and x * x * x * x, exact
Pow4(v) == v * v * v * v

\* numpy.testing.assert_allclose(actual, desired): rtol = 1e-7, atol = 0
AllClose(actual, desired) == Abs(actual - desired) <= Abs(desired) \div RtolInv

----------------------------------------------------------------------------
(* The ragged dataset *)

\* len(range(start, stop))
RangeLen(start, stop) == IF stop > start THEN stop - start ELSE 0

NRows(d) == RangeLen(d.start, d.stop)
RowSize(d, r) == d.start + r
\* draws consumed by the rows before row r
RowOffset(d, r) == r * d.start + (r * (r - 1)) \div 2
Elem(d, r, c) == RootN(d.roots, Rng(d.seed, RowOffset(d, r) + c))

RECURSIVE SumSizes(_, _, _)
SumSizes(d, lo, hi) ==
    IF lo > hi THEN 0
    ELSE IF lo = hi THEN RowSize(d, lo)
    ELSE LET m == (lo + hi) \div 2 IN SumSizes(d, lo, m) + SumSizes(d, m + 1, hi)

\* setup(): a generator seeded afresh, rows of size i for i in range(1, 10001)
SetupOffByOne == [seed |-> SEED, start |-> RangeStart, stop |-> RangeStop - 1, roots |-> 0]
Setup == [seed |-> SEED, start |-> RangeStart, stop |-> RangeStop, roots |-> 0]

\* the object setup() returns is a new one on every call
FreeIds == {i \in 0..Cardinality(DOMAIN heap) : i \notin DOMAIN heap}
MinOf(S) == CHOOSE i \in S : \A j \in S : i <= j
SetupIdShared == IF DOMAIN heap = {} THEN 0 ELSE MinOf(DOMAIN heap)
SetupId == MinOf(FreeIds)

NoId == -1
HeapPut(h, id, d) == [i \in DOMAIN h \cup {id} |-> IF i = id THEN d ELSE h[i]]
HeapDrop(h, id) == [i \in DOMAIN h \ {id} |-> h[i]]

----------------------------------------------------------------------------
(* Backend results and check_result *)

NoData == [seed |-> 0, start |-> 0, stop |-> 0, roots |-> 0]
Unbound == [kind |-> "unbound", d |-> NoData, pow |-> 0, err |-> 0, forced |-> FALSE]

\* len(result) and result.shape[0]: the outer length
ResultLen(res) == NRows(res.d)
\* result[r][c]
ResultElem(res, r, c) ==
    (IF res.pow = 4 THEN Pow4(Elem(res.d, r, c)) ELSE Elem(res.d, r, c)) + res.err

LenOk(orig, res) ==
    IF res.kind \notin {"RaggedTensor", "Tensor"} THEN ResultLen(res) = NRows(orig)
    ELSE IF res.kind # "Tensor" THEN ResultLen(res) = NRows(orig)
    ELSE TRUE

ValueOk(orig, res) ==
    AllClose(ResultElem(res, SpotRow, SpotCol), Pow4(Elem(orig, SpotRow, SpotCol)))

check_resultNoValueForTensors(orig, res) ==
    IF ~LenOk(orig, res) THEN "AssertionError"
    ELSE IF res.kind \notin {"RaggedTensor", "Tensor"} /\ ~ValueOk(orig, res) THEN "AssertionError"
    ELSE "ok"

check_result(orig, res) ==
    IF ~LenOk(orig, res) THEN "AssertionError"
    ELSE IF ~ValueOk(orig, res) THEN "AssertionError"
    ELSE "ok"

----------------------------------------------------------------------------
(* The adapters: one trial is the statement sequence of the loop body *)

Funcs == {"raw_python_bench", "awkward_bench", "tf_bench", "torch_bench", "pytaco_bench"}
Granular == Funcs \ {"raw_python_bench"}

DevicesOf(func) ==
    IF func = "tf_bench" THEN {"/device:GPU:0", "/device:CPU:0"}
    ELSE IF func = "torch_bench" THEN {"cpu", "cuda"}
    ELSE {""}

Available(device) == IF device \in {"/device:GPU:0", "cuda"} THEN gpu ELSE TRUE

ProgramTimersSwapped(func) ==
    IF func = "raw_python_bench" THEN <<"setup", "start", "loop", "end">>
    ELSE IF func = "awkward_bench"
    THEN <<"unpack", "start", "convert", "gstart", "compute", "gstop", "end">>
    ELSE IF func = "pytaco_bench"
    THEN <<"setup", "gstart", "convert", "start", "compute", "force", "gstop", "finalize", "end">>
    ELSE <<"setup", "gstart", "convert", "start", "compute", "force", "gstop", "end">>

ProgramForceLate(func) ==
    IF func = "raw_python_bench" THEN <<"setup", "start", "loop", "end">>
    ELSE IF func = "awkward_bench"
    THEN <<"unpack", "start", "convert", "gstart", "compute", "gstop", "end">>
    ELSE IF func = "pytaco_bench"
    THEN <<"setup", "start", "convert", "gstart", "compute", "gstop", "force", "finalize", "end">>
    ELSE <<"setup", "start", "convert", "gstart", "compute", "gstop", "force", "end">>

Program(func) ==
    IF func = "raw_python_bench" THEN <<"setup", "start", "loop", "end">>
    ELSE IF func = "awkward_bench"
    THEN <<"unpack", "start", "convert", "gstart", "compute", "gstop", "end">>
    ELSE IF func = "pytaco_bench"
    THEN <<"setup", "start", "convert", "gstart", "compute", "force", "gstop", "finalize", "end">>
    ELSE <<"setup", "start", "convert", "gstart", "compute", "force", "gstop", "end">>

KindOf(func) ==
    IF func = "awkward_bench" THEN "Array"
    ELSE IF func = "tf_bench" THEN "RaggedTensor"
    ELSE IF func = "torch_bench" THEN "Tensor"
    ELSE IF func = "pytaco_bench" THEN "pytaco.tensor"
    ELSE "ndarray"

NoFrame ==
    [func |-> "none", device |-> "", n |-> 0, trial |-> 0, pc |-> 0,
     start |-> 0, gstart |-> 0, total_l |-> <<>>, gran_l |-> <<>>,
     data |-> NoId, x |-> NoData, result |-> Unbound,
     events |-> <<>>, setups |-> 0]

\* the frame at the first statement of the function body
\* for trial in range(n_trials): the loop body runs while trial < n_trials
NewFrame(func, device, n) ==
    [NoFrame EXCEPT !.func = func, !.device = device, !.n = n,
                    !.pc = IF n > 0 THEN 1 ELSE 0]

Running == fr.func # "none"
InBody == Running /\ fr.pc > 0
Stmt == IF InBody THEN Program(fr.func)[fr.pc] ELSE "return"

NoValue == [arity |-> 0, total |-> <<>>, gran |-> <<>>, result |-> Unbound]
NoSig == <<"none", "", 0>>
NoRet ==
    [status |-> "none", exc |-> "", sig |-> NoSig, value |-> NoValue,
     executed |-> FALSE, wasDone |-> FALSE, wasCalled |-> FALSE, prior |-> NoValue,
     trials |-> 0, setups |-> 0]

----------------------------------------------------------------------------
(* joblib.Memory: memory.cache keys an entry on the function and its arguments *)

MemKeyNoDevice(func, device, n) == <<func, "", n>>
MemKey(func, device, n) == <<func, device, n>>

Hit(func, device, n) == MemKey(func, device, n) \in DOMAIN cache

CallRet(func, device, n) ==
    LET sig == <<func, device, n>> IN
    [NoRet EXCEPT !.sig = sig,
                  !.wasDone = sig \in DOMAIN hist.done,
                  !.wasCalled = sig \in hist.called,
                  !.prior = IF sig \in DOMAIN hist.done THEN hist.done[sig] ELSE NoValue]

\* the wrapped call: a stored entry is returned, otherwise the body starts
MemCall(func, device, n) ==
    /\ hist' = [hist EXCEPT !.called = @ \cup {<<func, device, n>>}]
    /\ IF Hit(func, device, n)
       THEN /\ ret' = [CallRet(func, device, n) EXCEPT
                          !.status = "ok", !.value = cache[MemKey(func, device, n)]]
            /\ UNCHANGED <<fr, clock>>
       ELSE /\ ret' = [CallRet(func, device, n) EXCEPT !.executed = TRUE]
            /\ fr' = NewFrame(func, device, n)
            /\ clock' = 0
    /\ UNCHANGED <<cache, heap>>

\* the frame's objects die with it
Release(h, id) == IF id # NoId /\ id # orig_data /\ id \in DOMAIN h THEN HeapDrop(h, id) ELSE h

\* an exception leaves the adapter: nothing is stored
Raise(exc, f) ==
    /\ ret' = [ret EXCEPT !.status = "raised", !.exc = exc,
                          !.trials = f.trial, !.setups = f.setups]
    /\ fr' = NoFrame
    /\ heap' = Release(heap, fr.data)
    /\ top' = IF top = "direct" THEN "idle" ELSE top
    /\ UNCHANGED <<cache, hist>>

Advance(f) == [f EXCEPT !.pc = @ + 1]

----------------------------------------------------------------------------
(* Statements of the adapters *)

\* what setup() returned first and last; whether a setup() followed an in-place loop
NoSnap == [has |-> FALSE, first |-> NoData, last |-> NoData, dirty |-> FALSE, later |-> FALSE]
Snapped(d) ==
    [snap EXCEPT !.has = TRUE, !.first = IF snap.has THEN snap.first ELSE d, !.last = d,
                 !.later = snap.later \/ snap.dirty]

StmtSetupHoisted ==
    /\ InBody /\ Stmt = "setup"
    /\ LET id == IF fr.data = NoId THEN SetupId ELSE fr.data IN
       /\ heap' = IF fr.data = NoId THEN HeapPut(heap, id, Setup) ELSE heap
       /\ fr' = [Advance(fr) EXCEPT !.data = id, !.setups = @ + 1,
                                    !.events = <<"generate">>]
       /\ snap' = Snapped(heap'[id])
    /\ UNCHANGED <<clock, cache, hist, orig_data, ret, top, mainpc, mainIdx,
                   log, plots, budget, tickMax, gpu, chk, probe>>

\* ragged_data = setup(): the name is rebound to a new dataset
StmtSetup ==
    /\ InBody /\ Stmt = "setup"
    /\ LET id == SetupId IN
       /\ heap' = HeapPut(Release(heap, fr.data), id, Setup)
       /\ fr' = [Advance(fr) EXCEPT !.data = id, !.setups = @ + 1,
                                    !.events = <<"generate">>]
       /\ snap' = Snapped(Setup)
    /\ UNCHANGED <<clock, cache, hist, orig_data, ret, top, mainpc, mainIdx,
                   log, plots, budget, tickMax, gpu, chk, probe>>

\* ragged_data, regular_data = setup(): unpacking needs exactly two rows
StmtUnpack ==
    /\ InBody /\ Stmt = "unpack"
    /\ snap' = Snapped(Setup)
    /\ IF NRows(Setup) # 2
       THEN Raise("ValueError", [fr EXCEPT !.setups = @ + 1])
       ELSE /\ LET id == SetupId IN
               /\ heap' = HeapPut(Release(heap, fr.data), id, Setup)
               /\ fr' = [Advance(fr) EXCEPT !.data = id, !.setups = @ + 1,
                                            !.events = <<"generate">>]
            /\ UNCHANGED <<cache, hist, ret, top>>
    /\ UNCHANGED <<clock, orig_data, mainpc, mainIdx,
                   log, plots, budget, tickMax, gpu, chk, probe>>

\* start = time.perf_counter()
StmtStart ==
    /\ InBody /\ Stmt = "start"
    /\ fr' = [Advance(fr) EXCEPT !.start = clock, !.events = Append(@, "total_start")]
    /\ UNCHANGED <<clock, cache, hist, heap, orig_data, ret, top, mainpc, mainIdx,
                   log, plots, budget, tickMax, gpu, snap, chk, probe>>

\* the nested loop of raw_python_bench: every element becomes its square root
StmtLoop ==
    /\ InBody /\ Stmt = "loop"
    /\ \E dt \in 0..tickMax : clock' = clock + dt
    /\ heap' = [heap EXCEPT ![fr.data].roots = @ + 1]
    /\ fr' = [Advance(fr) EXCEPT !.events = Append(@, "compute")]
    /\ snap' = [snap EXCEPT !.dirty = TRUE]
    /\ UNCHANGED <<cache, hist, orig_data, ret, top, mainpc, mainIdx,
                   log, plots, budget, tickMax, gpu, chk, probe>>

\* conversion to the backend's representation, under the device if there is one
StmtConvert ==
    /\ InBody /\ Stmt = "convert"
    /\ \E dt \in 0..tickMax : clock' = clock + dt
    /\ IF ~Available(fr.device)
       THEN Raise("BackendUnavailable", fr)
       ELSE /\ fr' = [Advance(fr) EXCEPT !.x = heap[fr.data],
                                         !.events = Append(@, "convert")]
            /\ UNCHANGED <<cache, hist, heap, ret, top>>
    /\ UNCHANGED <<orig_data, mainpc, mainIdx,
                   log, plots, budget, tickMax, gpu, snap, chk, probe>>

\* granular_start = time.perf_counter()
StmtGStart ==
    /\ InBody /\ Stmt = "gstart"
    /\ fr' = [Advance(fr) EXCEPT !.gstart = clock, !.events = Append(@, "granular_start")]
    /\ UNCHANGED <<clock, cache, hist, heap, orig_data, ret, top, mainpc, mainIdx,
                   log, plots, budget, tickMax, gpu, snap, chk, probe>>

\* result = x * x * x * x
StmtCompute ==
    /\ InBody /\ Stmt = "compute"
    /\ \E dt \in 0..tickMax : clock' = clock + dt
    /\ fr' = [Advance(fr) EXCEPT
                 !.result = [kind |-> KindOf(fr.func), d |-> fr.x, pow |-> 4, err |-> 0,
                             forced |-> fr.func = "awkward_bench"],
                 !.events = Append(@, "compute")]
    /\ UNCHANGED <<cache, hist, heap, orig_data, ret, top, mainpc, mainIdx,
                   log, plots, budget, tickMax, gpu, snap, chk, probe>>

\* print(result[10][1]) / result.evaluate()
StmtForce ==
    /\ InBody /\ Stmt = "force"
    /\ \E dt \in 0..tickMax : clock' = clock + dt
    /\ fr' = [Advance(fr) EXCEPT !.result.forced = TRUE, !.events = Append(@, "force")]
    /\ UNCHANGED <<cache, hist, heap, orig_data, ret, top, mainpc, mainIdx,
                   log, plots, budget, tickMax, gpu, snap, chk, probe>>

\* granular_sec = time.perf_counter() - granular_start; granular_sec_l.append(...)
StmtGStop ==
    /\ InBody /\ Stmt = "gstop"
    /\ fr' = [Advance(fr) EXCEPT !.gran_l = Append(@, clock - fr.gstart),
                                 !.events = Append(@, "granular_stop")]
    /\ UNCHANGED <<clock, cache, hist, heap, orig_data, ret, top, mainpc, mainIdx,
                   log, plots, budget, tickMax, gpu, snap, chk, probe>>

\* result = result.to_array()
StmtFinalize ==
    /\ InBody /\ Stmt = "finalize"
    /\ \E dt \in 0..tickMax : clock' = clock + dt
    /\ fr' = [Advance(fr) EXCEPT !.result.kind = "ndarray", !.events = Append(@, "to_array")]
    /\ UNCHANGED <<cache, hist, heap, orig_data, ret, top, mainpc, mainIdx,
                   log, plots, budget, tickMax, gpu, snap, chk, probe>>

\* end = time.perf_counter(); total_sec_l.append(end - start); next trial
StmtEnd ==
    /\ InBody /\ Stmt = "end"
    /\ fr' = [fr EXCEPT !.total_l = Append(@, clock - fr.start),
                        !.events = Append(@, "total_stop"),
                        !.trial = @ + 1,
                        !.pc = IF fr.trial + 1 < fr.n THEN 1 ELSE 0]
    /\ UNCHANGED <<clock, cache, hist, heap, orig_data, ret, top, mainpc, mainIdx,
                   log, plots, budget, tickMax, gpu, snap, chk, probe>>

\* the value of the return statement; a name no trial has bound is unbound
Returned ==
    IF fr.func = "raw_python_bench"
    THEN [arity |-> 2, total |-> fr.total_l, gran |-> <<>>,
          result |-> IF fr.data = NoId THEN Unbound
                     ELSE [kind |-> "ndarray", d |-> heap[fr.data], pow |-> 1, err |-> 0,
                           forced |-> TRUE]]
    ELSE [arity |-> 3, total |-> fr.total_l, gran |-> fr.gran_l, result |-> fr.result]

\* return ...: memory.cache stores the value under the call's key
Return ==
    /\ Running /\ ~InBody
    /\ IF Returned.result.kind = "unbound"
       THEN Raise("UnboundLocalError", fr)
       ELSE /\ cache' = HeapPut(cache, MemKey(fr.func, fr.device, fr.n), Returned)
            /\ hist' = [hist EXCEPT !.done = HeapPut(@, <<fr.func, fr.device, fr.n>>, Returned)]
            /\ ret' = [ret EXCEPT !.status = "ok", !.value = Returned,
                                  !.trials = fr.trial, !.setups = fr.setups]
            /\ fr' = NoFrame
            /\ heap' = Release(heap, fr.data)
            /\ top' = IF top = "direct" THEN "idle" ELSE top
    /\ UNCHANGED <<clock, orig_data, mainpc, mainIdx,
                   log, plots, budget, tickMax, gpu, snap, chk, probe>>

----------------------------------------------------------------------------
(* Callers *)

\* a caller of the module takes a reference dataset: d = setup()
DirSetup ==
    /\ top = "idle"
    /\ LET id == SetupId IN
       /\ heap' = HeapPut(IF orig_data = NoId THEN heap ELSE HeapDrop(heap, orig_data), id, Setup)
       /\ orig_data' = id
    /\ snap' = Snapped(Setup)
    /\ UNCHANGED <<clock, cache, hist, fr, ret, top, mainpc, mainIdx,
                   log, plots, budget, tickMax, gpu, chk, probe>>

\* a caller of the module invokes one memoized adapter
DirectCall ==
    /\ top = "idle" /\ budget > 0
    /\ \E func \in Funcs : \E device \in DevicesOf(func) : \E n \in 0..MaxTrials :
          /\ MemCall(func, device, n)
          /\ top' = IF Hit(func, device, n) THEN "idle" ELSE "direct"
    /\ budget' = budget - 1
    /\ UNCHANGED <<orig_data, mainpc, mainIdx, log, plots, tickMax, gpu, snap, chk, probe>>

Backends ==
    << <<"awkward_bench", "">>,
       <<"tf_bench", "/device:GPU:0">>,
       <<"tf_bench", "/device:CPU:0">>,
       <<"pytaco_bench", "">>,
       <<"torch_bench", "cpu">>,
       <<"torch_bench", "cuda">> >>

\* after a failed backend the exception leaves main_bench
OnFailureContinue(failed) == "call"
OnFailure(failed) == IF failed THEN "aborted" ELSE "call"

\* main_bench, one statement at a time
MainStep ==
    /\ ~Running
    /\ IF mainpc = "off"
       THEN /\ top = "idle"
            /\ LET id == SetupId IN
               /\ heap' = HeapPut(IF orig_data = NoId THEN heap
                                  ELSE HeapDrop(heap, orig_data), id, Setup)
               /\ orig_data' = id
            /\ snap' = Snapped(Setup)
            /\ top' = "main" /\ mainpc' = "call" /\ mainIdx' = 1
            /\ UNCHANGED <<clock, cache, hist, fr, ret, log, plots>>
       ELSE IF mainpc = "call"
       THEN /\ MemCall(Backends[mainIdx][1], Backends[mainIdx][2], MainTrials)
            /\ log' = Append(log, <<"call", Backends[mainIdx][1], Backends[mainIdx][2]>>)
            /\ mainpc' = "check"
            /\ UNCHANGED <<orig_data, snap, top, mainIdx, plots>>
       ELSE IF mainpc = "check"
       THEN LET failed == \/ ret.status = "raised"
                          \/ check_result(heap[orig_data], ret.value.result) # "ok"
                next == OnFailure(failed)
            IN /\ log' = Append(log, <<IF ret.status = "raised" THEN "raised"
                                        ELSE IF failed THEN "check_failed" ELSE "check",
                                        Backends[mainIdx][1], Backends[mainIdx][2]>>)
               /\ IF next = "aborted"
                  THEN mainpc' = "aborted" /\ top' = "idle" /\ mainIdx' = mainIdx
                  ELSE IF mainIdx < Len(Backends)
                  THEN mainpc' = "call" /\ top' = top /\ mainIdx' = mainIdx + 1
                  ELSE mainpc' = "plot" /\ top' = top /\ mainIdx' = mainIdx
               /\ UNCHANGED <<clock, cache, hist, heap, orig_data, fr, ret, snap, plots>>
       ELSE /\ mainpc = "plot"
            /\ plots' = plots + 1
            /\ log' = Append(log, <<"plot", "", "">>)
            /\ mainpc' = "done" /\ top' = "idle"
            /\ UNCHANGED <<clock, cache, hist, heap, orig_data, fr, ret, snap, mainIdx>>
    /\ UNCHANGED <<budget, tickMax, gpu, chk, probe>>

----------------------------------------------------------------------------
(* Specifications *)

NoChk == [kind |-> "none", stop |-> 0, err |-> 0, pow |-> 0, outcome |-> "none"]
NoProbe == [row |-> -1, size |-> 0]

InitWith(ticks, calls) ==
    /\ clock = 0
    /\ cache = << >>
    /\ hist = [done |-> << >>, called |-> {}]
    /\ heap = << >>
    /\ orig_data = NoId
    /\ fr = NoFrame
    /\ ret = NoRet
    /\ top = "idle"
    /\ mainpc = "off"
    /\ mainIdx = 0
    /\ log = << >>
    /\ plots = 0
    /\ budget = calls
    /\ tickMax = ticks
    /\ gpu \in BOOLEAN
    /\ snap = NoSnap
    /\ chk = NoChk
    /\ probe = NoProbe

Init == InitWith(MaxTick, MaxCalls)

Next ==
    \/ StmtSetup \/ StmtUnpack \/ StmtStart \/ StmtLoop \/ StmtConvert
    \/ StmtGStart \/ StmtCompute \/ StmtForce \/ StmtGStop \/ StmtFinalize
    \/ StmtEnd \/ Return \/ DirSetup \/ DirectCall \/ MainStep

Spec == Init /\ [][Next]_vars

\* the same program with an instantaneous clock and more calls in a row
InitMemo == InitWith(0, MaxMemoCalls)
SpecMemo == InitMemo /\ [][Next]_vars

----------------------------------------------------------------------------
(* check_result applied to results of every type, length and value *)

LenSlack == 1

ResultKinds == {"Array", "RaggedTensor", "Tensor", "ndarray"}
SpotExpected == Pow4(Elem(Setup, SpotRow, SpotCol))
SpotTol == SpotExpected \div RtolInv
ErrInputs == {-(SpotTol + 1), -SpotTol, -1, 0, 1, SpotTol, SpotTol + 1}

CheckCall ==
    /\ \E kind \in ResultKinds : \E stop \in (RangeStop - LenSlack)..(RangeStop + LenSlack) :
       \E err \in ErrInputs : \E pow \in {1, 4} :
          chk' = [kind |-> kind, stop |-> stop, err |-> err, pow |-> pow,
                  outcome |-> check_result(Setup,
                                 [kind |-> kind, d |-> [Setup EXCEPT !.stop = stop],
                                  pow |-> pow, err |-> err, forced |-> TRUE])]
    /\ UNCHANGED <<clock, cache, hist, heap, orig_data, fr, ret, top, mainpc, mainIdx,
                   log, plots, budget, tickMax, gpu, snap, probe>>

NextCheck == CheckCall
SpecCheck == Init /\ [][NextCheck]_vars

----------------------------------------------------------------------------
(* setup() read row by row *)

ProbeRows(d) ==
    {r \in 0..(NRows(d) - 1) : r <= ProbeSpan \/ r >= NRows(d) - 1 - ProbeSpan}

\* len(ragged_data[r]) for a row r of the caller's dataset
Probe ==
    /\ top = "idle" /\ orig_data # NoId
    /\ \E r \in ProbeRows(heap[orig_data]) :
          probe' = [row |-> r, size |-> RowSize(heap[orig_data], r)]
    /\ UNCHANGED <<clock, cache, hist, heap, orig_data, fr, ret, top, mainpc, mainIdx,
                   log, plots, budget, tickMax, gpu, snap, chk>>

NextSetup == DirSetup \/ Probe
SpecSetup == Init /\ [][NextSetup]_vars

----------------------------------------------------------------------------
(* Properties *)

Sig(r) == [func |-> r.sig[1], device |-> r.sig[2], n |-> r.sig[3]]
Finished == ~Running /\ ret.status \in {"ok", "raised"}

SampleRows(d) == {r \in {0, 1, SpotRow, NRows(d) - 1} : r >= 0 /\ r < NRows(d)}
SampleCols(d, r) == {0, RowSize(d, r) \div 2, RowSize(d, r) - 1}

\* two datasets agree in shape and element by element on the sampled rows
SameData(a, b) ==
    /\ NRows(a) = NRows(b)
    /\ \A r \in SampleRows(a) :
          /\ RowSize(a, r) = RowSize(b, r)
          /\ \A c \in SampleCols(a, r) : Elem(a, r, c) = Elem(b, r, c)

\* C1: a granular adapter called with n_trials >= 1 on an available device runs
\* n_trials trials, each after its own setup(), and returns a triple whose two
\* timing sequences have length n_trials.
C1_Claim ==
    (Finished /\ ret.executed /\ Sig(ret).func \in Granular /\ Sig(ret).n >= 1
        /\ Available(Sig(ret).device))
    => /\ ret.status = "ok"
       /\ ret.trials = Sig(ret).n
       /\ ret.setups = Sig(ret).n
       /\ ret.value.arity = 3
       /\ Len(ret.value.total) = Sig(ret).n
       /\ Len(ret.value.gran) = Sig(ret).n

PairsOk(total, gran) ==
    /\ \A k \in 1..Len(gran) : gran[k] >= 0
    /\ \A k \in 1..Len(total) : total[k] >= 0
    /\ \A k \in 1..Len(total) : k <= Len(gran) => gran[k] <= total[k]

\* C2: in every trial of an adapter that reports both samples, the granular
\* sample and the total sample are non-negative and granular <= total.
C2_GranularLeTotal ==
    /\ Running /\ fr.func \in Granular => PairsOk(fr.total_l, fr.gran_l)
    /\ ret.status = "ok" /\ ret.value.arity = 3 => PairsOk(ret.value.total, ret.value.gran)
    /\ \A key \in DOMAIN cache :
          cache[key].arity = 3 => PairsOk(cache[key].total, cache[key].gran)

C2_Witness ==
    /\ ret.status = "ok" /\ Sig(ret).func = "pytaco_bench" /\ Sig(ret).n = 2
    /\ ret.value.gran[2] > 0
    /\ ret.value.gran[2] < ret.value.total[2]

\* C3: a call equal to an earlier completed call returns that call's value
\* without running the adapter; a call unlike every earlier call runs it.
C3_Memoized ==
    /\ ret.wasDone => /\ ret.status = "ok"
                      /\ ~ret.executed
                      /\ ret.value = ret.prior
    /\ (ret.sig # NoSig /\ ~ret.wasCalled) => ret.executed

C3_Witness ==
    /\ ret.wasDone /\ ~ret.executed /\ ret.status = "ok"
    /\ Sig(ret).func = "tf_bench" /\ Sig(ret).n = 1
    /\ Len(ret.value.total) = 1

ClaimedOrder ==
    << <<"awkward_bench", "">>, <<"tf_bench", "/device:GPU:0">>,
       <<"tf_bench", "/device:CPU:0">>, <<"pytaco_bench", "">>,
       <<"torch_bench", "cpu">>, <<"torch_bench", "cuda">> >>

C5_LengthCond == IF chk.kind = "Tensor" THEN TRUE ELSE chk.stop - RangeStart = 10000
C5_ValueCond ==
    LET v == Rng(SEED, 56)
        actual == (IF chk.pow = 4 THEN v * v * v * v ELSE v) + chk.err
    IN Abs(actual - v * v * v * v) <= (v * v * v * v) \div 10000000

C6_RawSqrtOnce ==
    (ret.status = "ok" /\ Sig(ret).func = "raw_python_bench" /\ Sig(ret).n >= 1)
    => /\ ret.value.arity = 2
       /\ ret.value.gran = << >>
       /\ Len(ret.value.total) = Sig(ret).n
       /\ NRows(ret.value.result.d) = NRows(Setup)
       /\ \A r \in SampleRows(Setup) :
             /\ RowSize(ret.value.result.d, r) = RowSize(Setup, r)
             /\ \A c \in SampleCols(Setup, r) :
                   ResultElem(ret.value.result, r, c) = Sqrt(Elem(Setup, r, c))

C6_Witness ==
    /\ ret.status = "ok" /\ Sig(ret).func = "raw_python_bench" /\ Sig(ret).n = 2
    /\ ret.trials = 2
    /\ ResultElem(ret.value.result, SpotRow, SpotCol) # Elem(Setup, SpotRow, SpotCol)
    /\ Sqrt(ResultElem(ret.value.result, SpotRow, SpotCol))
          # ResultElem(ret.value.result, SpotRow, SpotCol)

\* C7: every setup() returns the dataset the first one returned, and the
\* caller's reference dataset is never changed by an adapter.
C7_SetupDeterministic ==
    /\ snap.has => SameData(snap.first, snap.last)
    /\ (snap.has /\ orig_data # NoId) => SameData(heap[orig_data], snap.first)

C7_Witness ==
    /\ snap.has /\ snap.dirty /\ snap.later
    /\ orig_data # NoId
    /\ ret.status = "ok" /\ Sig(ret).func = "raw_python_bench"
    /\ ret.value.result.d.roots = 1

\* C8: the dataset has 10000 rows, row i has i + 1 elements, and the element
\* count is N(N+1)/2.
C8_Triangle ==
    orig_data # NoId =>
       LET d == heap[orig_data] IN
       /\ NRows(d) = 10000
       /\ \A i \in 0..(NRows(d) - 1) : RowSize(d, i) = i + 1
       /\ RowSize(d, 0) = 1
       /\ \A i \in 1..(NRows(d) - 1) : RowSize(d, i) = RowSize(d, i - 1) + 1
       /\ SumSizes(d, 0, NRows(d) - 1) = (10000 * 10001) \div 2
       /\ probe.row >= 0 => probe.size = probe.row + 1

C8_Witness ==
    /\ orig_data # NoId /\ probe.row = 9999 /\ probe.size = 10000
    /\ SumSizes(heap[orig_data], 0, probe.row) = 50005000

ClaimedEvents(func) ==
    IF func = "awkward_bench"
    THEN <<"generate", "total_start", "convert", "granular_start", "compute",
           "granular_stop", "total_stop">>
    ELSE <<"generate", "total_start", "convert", "granular_start", "compute", "force",
           "granular_stop", "total_stop">>

Claimed(ev) == SelectSeq(ev, LAMBDA e : e # "to_array")
IsPrefix(a, b) == Len(a) <= Len(b) /\ \A i \in 1..Len(a) : a[i] = b[i]
Has(ev, e) == \E i \in 1..Len(ev) : ev[i] = e

\* C9: in a trial of a granular adapter the events come in the order dataset
\* generation, outer timer start, conversion, granular timer start, computation
\* and its forced evaluation, granular timer stop, outer timer stop.
C9_EventOrder ==
    (Running /\ fr.func \in Granular) =>
       /\ IsPrefix(Claimed(fr.events), ClaimedEvents(fr.func))
       /\ Has(fr.events, "granular_stop") => fr.result.forced
       /\ Len(fr.total_l) = fr.trial
       /\ (fr.trial > 0 /\ fr.events # << >> /\ fr.events[Len(fr.events)] = "total_stop")
             => Claimed(fr.events) = ClaimedEvents(fr.func)

C9_Witness ==
    /\ Running /\ fr.func = "pytaco_bench" /\ fr.trial = 2
    /\ Claimed(fr.events) = ClaimedEvents("pytaco_bench")
    /\ Has(fr.events, "to_array")
    /\ fr.gran_l[2] < fr.total_l[2]

\* C10: called with n_trials = 0 every adapter returns normally with timing
\* sequences of length 0.
C10_Claim ==
    (Finished /\ ret.executed /\ Sig(ret).n = 0)
    => /\ ret.status = "ok"
       /\ Len(ret.value.total) = 0
       /\ Len(ret.value.gran) = 0

====
